---- MODULE Spec2Model ----
(***************************************************************************)
(* Token issuance and tracking subsystem of the SmartCover proxy API       *)
(* (src/app/fastapi_app/auth.py, routes.py, config.py).                    *)
(*                                                                         *)
(* Time is counted in ticks; TicksPerSecond ticks make one second, so that *)
(* the sub-second datetimes kept by the registry and the whole-second      *)
(* timestamps carried inside a JWT are distinguished.                      *)
(***************************************************************************)
EXTENDS Integers, Sequences, FiniteSets, TLC

(***************************************************************************)
(* Bounds of the model.                                                    *)
(***************************************************************************)
\* last tick the clock reaches
MaxTime == 3
\* clock resolution: ticks per second (datetime has microseconds)
TicksPerSecond == 2
\* token lifetime in seconds (stands for JWT_ACCESS_TOKEN_EXPIRE_MINUTES
\* minutes, scaled down so that expiry happens within MaxTime)
TokenLifetime == 1
\* number of values secrets.token_hex(16) is drawn from
MaxJti == 1
\* number of bursts of logins of the unlimited user (SpecSlots)
MaxBursts == 5
\* number of records a burst may leave in the bucket (SpecSlots)
MaxBucket == 101
\* number of records a burst may leave in the bucket (SpecList)
MaxListed == 12
\* number of whole days in the durations that are formatted (SpecDuration)
MaxDays == 2
\* number of records a user without a limit holds at most (SpecUnlimited)
MaxHeld == 4

(***************************************************************************)
(* Configuration (config.py).                                              *)
(***************************************************************************)
JWT_SECRET_KEY == "change-me-in-production"

\* the credential store as loaded at start-up: two enabled users with a
\* positive limit, one disabled user and one user without a limit; "erin" is
\* a bare password string (written [str |-> ...], the store being untyped
\* JSON), "frank" a record with no token_limit key; "mallory" is not in the
\* store
API_USERS_0 ==
    [u \in {"alice", "bob", "carol", "dave", "erin", "frank"} |->
        CASE u = "alice" -> [password |-> "pw_alice", token_limit |-> 3, enabled |-> TRUE]
          [] u = "bob"   -> [password |-> "pw_bob",   token_limit |-> 1, enabled |-> TRUE]
          [] u = "carol" -> [password |-> "pw_carol", token_limit |-> 1, enabled |-> FALSE]
          [] u = "dave"  -> [password |-> "pw_dave",  token_limit |-> 0, enabled |-> TRUE]
          [] u = "erin"  -> [str |-> "pw_erin"]
          [] u = "frank" -> [password |-> "pw_frank", enabled |-> TRUE]]

\* the (username, password) pairs clients send to POST /auth/token
LoginInputs ==
    { <<"alice", "pw_alice">>, <<"alice", "guess">>,
      <<"carol", "pw_carol">>, <<"mallory", "guess">> }

\* the pairs sent in the runs that follow the tokens of two users
IntroLoginInputs == { <<"alice", "pw_alice">>, <<"bob", "pw_bob">> }

\* the pair sent while an operator edits the credential store, and the users
\* whose record the operator edits
AdminLoginInputs == { <<"alice", "pw_alice">> }

\* the pairs sent by the users who have no limit
UnlimitedLoginInputs ==
    { <<"dave", "pw_dave">>, <<"erin", "pw_erin">>, <<"frank", "pw_frank">> }
Operated == {"alice"}

\* the numbers of logins the user without a limit sends in one burst: one,
\* or as many as _get_next_api_name has numbers to search
BurstSizes == {1, 99}

\* the numbers of logins in one burst in the runs that list the tokens: one,
\* or enough to reach a slot name of two digits
ListBurstSizes == {1, 10}

Requests == {"r1", "r2"}
NoReq == "none"
None == [none |-> TRUE]

VARIABLES
    now,             \* datetime.now(timezone.utc), in ticks
    API_USERS,       \* config.API_USERS
    _active_tokens,  \* auth._active_tokens: username -> (token_hash -> record)
    req,             \* the login requests in flight: pc and locals of each
    loop,            \* the request whose handler holds the event loop
    issued,          \* what clients hold of the successful logins
    response,        \* the response the last step sent, NoResponse if none
    burst            \* the bursts of logins of SpecSlots: started, logins left

vars == <<now, API_USERS, _active_tokens, req, loop, issued, response, burst>>

(***************************************************************************)
(* Strings that the code builds and takes apart are sequences of           *)
(* characters; user names, passwords and messages are only compared.       *)
(***************************************************************************)
Digits == <<"0", "1", "2", "3", "4", "5", "6", "7", "8", "9">>

RECURSIVE str(_)
\* str(i) for i >= 0: the decimal digits of i
str(i) == IF i < 10 THEN <<Digits[i + 1]>>
          ELSE str(i \div 10) \o <<Digits[(i % 10) + 1]>>

\* f"API_{i}"
ApiName(i) == <<"A", "P", "I", "_">> \o str(i)

\* s.startswith(p)
startswith(s, p) == Len(s) >= Len(p) /\ SubSeq(s, 1, Len(p)) = p

\* the positions of "_" in s
Underscores(s) == {k \in 1..Len(s) : s[k] = "_"}

Min(S) == CHOOSE x \in S : \A y \in S : x <= y

\* s.split("_")[1] for a string with at least one "_": what lies between the
\* first "_" and the next one (or the end)
split_1(s) ==
    LET first == Min(Underscores(s))
        later == {k \in Underscores(s) : k > first}
        stop  == IF later = {} THEN Len(s) + 1 ELSE Min(later)
    IN  SubSeq(s, first + 1, stop - 1)

DigitChars == {Digits[k] : k \in 1..10}

DigitValue == [c \in DigitChars |-> (CHOOSE k \in 1..10 : Digits[k] = c) - 1]

\* whether int(s) succeeds (no ValueError) on a string of the model
IsInt(s) == Len(s) > 0 /\ \A k \in 1..Len(s) : s[k] \in DigitChars

RECURSIVE int(_)
\* int(s) for a string of decimal digits
int(s) == IF Len(s) = 0 THEN 0
          ELSE 10 * int(SubSeq(s, 1, Len(s) - 1)) + DigitValue[s[Len(s)]]

\* auth.py 54-59: the number a slot name adds to used_numbers, -1 if it adds
\* none (no "API_" prefix, or int() raises ValueError)
NumberOf(api_name) ==
    IF startswith(api_name, <<"A", "P", "I", "_">>)
    THEN LET part == split_1(api_name)
         IN  IF IsInt(part) THEN int(part) ELSE -1
    ELSE -1

(***************************************************************************)
(* Time.                                                                   *)
(***************************************************************************)
\* timegm(dt.utctimetuple()): a datetime cut to whole seconds, as jose does
\* with the exp and iat claims and with the current time
Seconds(t) == t \div TicksPerSecond

\* datetime.fromtimestamp(ts): whole seconds back to a datetime
FromTimestamp(ts) == ts * TicksPerSecond

\* timedelta(minutes=JWT_ACCESS_TOKEN_EXPIRE_MINUTES)
expires_delta == TokenLifetime * TicksPerSecond

\* int(td.total_seconds()): truncation toward zero
TotalSecondsInt(td) == IF td >= 0 THEN td \div TicksPerSecond
                       ELSE -((-td) \div TicksPerSecond)

\* " ".join(parts)
RECURSIVE join(_, _)
join(sep, parts) ==
    IF Len(parts) = 0 THEN << >>
    ELSE IF Len(parts) = 1 THEN parts[1]
    ELSE parts[1] \o sep \o join(sep, Tail(parts))

\* a duration text with all three components, zero or not
_format_duration_all_parts(seconds) ==
    IF seconds <= 0 THEN <<"e", "x", "p", "i", "r", "e", "d">>
    ELSE join(<<" ">>, << str(seconds \div 86400) \o <<"d">>,
                          str((seconds % 86400) \div 3600) \o <<"h">>,
                          str((seconds % 3600) \div 60) \o <<"m">> >>)

\* a duration text whose hours are not taken within the day
_format_duration_total_hours(seconds) ==
    IF seconds <= 0 THEN <<"e", "x", "p", "i", "r", "e", "d">>
    ELSE LET days == seconds \div 86400
             hours == seconds \div 3600
             minutes == (seconds % 3600) \div 60
             parts == (IF days > 0 THEN << str(days) \o <<"d">> >> ELSE << >>)
                      \o (IF hours > 0 THEN << str(hours) \o <<"h">> >> ELSE << >>)
                      \o (IF minutes > 0 THEN << str(minutes) \o <<"m">> >> ELSE << >>)
         IN  IF parts # << >> THEN join(<<" ">>, parts) ELSE <<"<", "1", "m">>

\* _format_duration(seconds)
_format_duration(seconds) ==
    IF seconds <= 0 THEN <<"e", "x", "p", "i", "r", "e", "d">>
    ELSE LET days == seconds \div 86400
             hours == (seconds % 86400) \div 3600
             minutes == (seconds % 3600) \div 60
             parts_d == IF days > 0 THEN << str(days) \o <<"d">> >> ELSE << >>
             parts_h == IF hours > 0 THEN Append(parts_d, str(hours) \o <<"h">>)
                        ELSE parts_d
             parts == IF minutes > 0 THEN Append(parts_h, str(minutes) \o <<"m">>)
                      ELSE parts_h
         IN  IF parts # << >> THEN join(<<" ">>, parts) ELSE <<"<", "1", "m">>

(***************************************************************************)
(* Credential store (auth.get_user_config, auth.verify_credentials).       *)
(***************************************************************************)
\* get_user_config that gives a bare password entry a limit of one token
get_user_config_legacy_limited(users, username) ==
    IF username \notin DOMAIN users THEN [none |-> TRUE]
    ELSE IF DOMAIN users[username] = {"str"}
    THEN [password |-> users[username].str, token_limit |-> 1, enabled |-> TRUE]
    ELSE users[username]

\* isinstance(user, str)
isinstance_str(user) == DOMAIN user = {"str"}

\* d.get(key, default)
Get(d, key, default) == IF key \in DOMAIN d THEN d[key] ELSE default

get_user_config(users, username) ==
    IF username \notin DOMAIN users THEN None
    ELSE IF isinstance_str(users[username])
    THEN [password |-> users[username].str, token_limit |-> 0, enabled |-> TRUE]
    ELSE users[username]

\* verify_credentials without the check of the enabled flag
verify_credentials_password_only(users, username, password) ==
    LET user_config == get_user_config(users, username)
    IN  IF user_config = None THEN FALSE
        ELSE IF "password" \notin DOMAIN user_config THEN FALSE
        ELSE user_config.password = password

verify_credentials(users, username, password) ==
    LET user_config == get_user_config(users, username)
    IN  IF user_config = None THEN FALSE
        ELSE IF ~Get(user_config, "enabled", TRUE) THEN FALSE
        ELSE IF "password" \notin DOMAIN user_config THEN FALSE
        ELSE user_config.password = password

(***************************************************************************)
(* JWT (jose.jwt.encode / jose.jwt.decode as auth.py uses them).           *)
(***************************************************************************)
\* an encoding that leaves the api_name claim out of the token
jwt_encode_without_api_name(sub, exp, iat, jti, api_name, key) ==
    [sub |-> sub, exp |-> Seconds(exp), iat |-> Seconds(iat), jti |-> jti,
     api_name |-> << >>, key |-> key]

\* jwt.encode(to_encode, JWT_SECRET_KEY): the claims, with exp and iat cut
\* to whole seconds, signed with the key
jwt_encode(sub, exp, iat, jti, api_name, key) ==
    [sub |-> sub, exp |-> Seconds(exp), iat |-> Seconds(iat), jti |-> jti,
     api_name |-> api_name, key |-> key]

JWTError == [error |-> "JWTError"]

\* a decode that already rejects the token during the second of its exp
jwt_decode_strict(token, t) ==
    IF token.key # JWT_SECRET_KEY THEN JWTError
    ELSE IF token.exp <= Seconds(t) THEN JWTError
    ELSE token

\* jwt.decode(token, JWT_SECRET_KEY) at time t: JWTError on a text that is
\* no JWT (it has no signature at all), on a signature made with another key
\* or when exp < the current whole second
jwt_decode(token, t) ==
    IF "key" \notin DOMAIN token THEN JWTError
    ELSE IF token.key # JWT_SECRET_KEY THEN JWTError
    ELSE IF token.exp < Seconds(t) THEN JWTError
    ELSE token

(***************************************************************************)
(* Token registry (auth.py lines 16-91).                                   *)
(***************************************************************************)
UserCode(username) ==
    CASE username = "alice" -> 1 [] username = "bob" -> 2
      [] username = "carol" -> 3 [] username = "dave" -> 4
      [] username = "erin" -> 5 [] username = "frank" -> 6 [] OTHER -> 0

\* hashlib.sha256(token.encode()).hexdigest()[:16]: a digest of the whole
\* token text; the digest is taken to be collision-free on the tokens of the
\* model, as the code assumes
_hash_token(token) ==
    LET slot == NumberOf(token.api_name) + 1
        T == MaxTime + expires_delta + 1
    IN  ((((UserCode(token.sub) * T + token.exp) * T + token.iat)
            * (MaxJti + MaxBursts + 1) + token.jti) * 1024 + slot) * 2
        + (IF token.key = JWT_SECRET_KEY THEN 1 ELSE 0)

\* the bucket of a user, {} when the user has none
Bucket(tokens, username) ==
    IF username \in DOMAIN tokens THEN tokens[username] ELSE << >>

\* an assignment that makes the registry anew with the one bucket
WithBucket_alone(tokens, username, bucket) == (username :> bucket)

\* the registry with the bucket of username replaced
WithBucket(tokens, username, bucket) == (username :> bucket) @@ tokens

\* a clean-up that keeps the records that expire at the very instant t
_cleanup_expired_tokens_late(tokens, username, t) ==
    IF username \notin DOMAIN tokens THEN tokens
    ELSE WithBucket(tokens, username,
            [h \in {k \in DOMAIN tokens[username] : tokens[username][k].expiry >= t}
                |-> tokens[username][h]])

\* a clean-up that goes through the buckets of all users
_cleanup_expired_tokens_all(tokens, username, t) ==
    IF username \notin DOMAIN tokens THEN tokens
    ELSE [u \in DOMAIN tokens |->
            [h \in {k \in DOMAIN tokens[u] : tokens[u][k].expiry > t} |-> tokens[u][h]]]

\* a clean-up that removes nothing
_cleanup_expired_tokens_noop(tokens, username, t) == tokens

\* _cleanup_expired_tokens(username) run at time t
_cleanup_expired_tokens(tokens, username, t) ==
    IF username \notin DOMAIN tokens THEN tokens
    ELSE WithBucket(tokens, username,
            [h \in {k \in DOMAIN tokens[username] : tokens[username][k].expiry > t}
                |-> tokens[username][h]])

\* a count of the buckets of the registry in place of the user's records
_count_active_tokens_users(tokens, username) == Cardinality(DOMAIN tokens)

\* the value _count_active_tokens returns after its clean-up
_count_active_tokens(tokens, username) ==
    IF username \in DOMAIN tokens THEN Cardinality(DOMAIN tokens[username]) ELSE 0

\* the limit check with > in place of >=
LimitReached_gt(active_count, token_limit) == active_count > token_limit

\* auth.py 173: if active_count >= token_limit
LimitReached(active_count, token_limit) == active_count >= token_limit

\* used_numbers of _get_next_api_name
used_numbers(bucket) ==
    {NumberOf(bucket[h].api_name) : h \in DOMAIN bucket} \ {-1}

RECURSIVE FirstFree(_, _)
\* for i in range(1, 100): if i not in used_numbers: return i (0: none found)
FirstFree(used, i) ==
    IF i >= 100 THEN 0
    ELSE IF i \notin used THEN i
    ELSE FirstFree(used, i + 1)

\* a slot name from the number of records alone
_get_next_api_name_count(tokens, username) ==
    ApiName(Cardinality(DOMAIN Bucket(tokens, username)) + 1)

\* a slot name one above the highest number in use
_get_next_api_name_max(tokens, username) ==
    LET used == used_numbers(Bucket(tokens, username)) \cup {0}
    IN  ApiName((CHOOSE n \in used : \A m \in used : m <= n) + 1)

\* a slot name whose fall-back counts the records of the bucket
_get_next_api_name_records(tokens, username) ==
    IF username \notin DOMAIN tokens THEN ApiName(1)
    ELSE LET used == used_numbers(tokens[username])
             i == FirstFree(used, 1)
         IN  IF i # 0 THEN ApiName(i)
             ELSE ApiName(Cardinality(DOMAIN tokens[username]) + 1)

\* the value _get_next_api_name returns after its clean-up
_get_next_api_name(tokens, username) ==
    IF username \notin DOMAIN tokens THEN ApiName(1)
    ELSE LET used == used_numbers(tokens[username])
             i == FirstFree(used, 1)
         IN  IF i # 0 THEN ApiName(i)
             ELSE ApiName(Cardinality(used) + 1)

\* a registration that also moves the expiry of the user's other records to
\* the expiry of the new one
_register_token_renew(tokens, username, token, expiry, api_name, t) ==
    LET bucket == IF username \in DOMAIN tokens THEN tokens[username] ELSE << >>
        record == [api_name |-> api_name, expiry |-> expiry,
                   created_at |-> t, token |-> token]
    IN  (username :> ((_hash_token(token) :> record)
                        @@ [h \in DOMAIN bucket |-> [bucket[h] EXCEPT !.expiry = expiry]]))
            @@ tokens

\* _register_token(username, token, expiry, api_name) run at time t
_register_token(tokens, username, token, expiry, api_name, t) ==
    LET bucket == Bucket(tokens, username)
        token_hash == _hash_token(token)
        record == [api_name |-> api_name, expiry |-> expiry,
                   created_at |-> t, token |-> token]
    IN  WithBucket(tokens, username, (token_hash :> record) @@ bucket)

\* the order of str on the characters of a slot name (their code points)
CharCode ==
    [c \in DigitChars \cup {"A", "I", "P", "_"} |->
        CASE c = "A" -> 65 [] c = "I" -> 73 [] c = "P" -> 80 [] c = "_" -> 95
          [] OTHER -> 48 + DigitValue[c]]

\* s1 < s2 on str
RECURSIVE StrLess(_, _)
StrLess(s1, s2) ==
    IF s2 = << >> THEN FALSE
    ELSE IF s1 = << >> THEN TRUE
    ELSE IF Head(s1) = Head(s2) THEN StrLess(Tail(s1), Tail(s2))
    ELSE CharCode[Head(s1)] < CharCode[Head(s2)]

\* a sort by the number in the slot name
RECURSIVE SortedByApiName_numeric(_, _)
SortedByApiName_numeric(bucket, keys) ==
    IF keys = {} THEN << >>
    ELSE LET first == CHOOSE h \in keys :
                        \A k \in keys : NumberOf(bucket[h].api_name)
                                            <= NumberOf(bucket[k].api_name)
         IN  <<first>> \o SortedByApiName_numeric(bucket, keys \ {first})

\* tokens.sort(key=lambda x: x["api_name"]) on the keys of a bucket
RECURSIVE SortedByApiName(_, _)
SortedByApiName(bucket, keys) ==
    IF keys = {} THEN << >>
    ELSE LET first == CHOOSE h \in keys :
                        \A k \in keys : ~StrLess(bucket[k].api_name, bucket[h].api_name)
         IN  <<first>> \o SortedByApiName(bucket, keys \ {first})

\* a list that goes through the buckets of all users
get_user_tokens_everyone(tokens, username, t) ==
    LET keys == UNION {DOMAIN tokens[u] : u \in DOMAIN tokens}
        bucket == [h \in keys |->
                    tokens[CHOOSE u \in DOMAIN tokens : h \in DOMAIN tokens[u]][h]]
        order == SortedByApiName(bucket, DOMAIN bucket)
        diff(h) == TotalSecondsInt(bucket[h].expiry - t)
    IN  [i \in 1..Len(order) |->
            [api_name |-> bucket[order[i]].api_name,
             token |-> bucket[order[i]].token,
             created_at |-> bucket[order[i]].created_at,
             expires_at |-> bucket[order[i]].expiry,
             expires_in_seconds |-> IF diff(order[i]) > 0 THEN diff(order[i]) ELSE 0,
             expires_in_human |-> _format_duration(IF diff(order[i]) > 0
                                                   THEN diff(order[i]) ELSE 0)]]

\* get_user_tokens(username) at time t, after its clean-up
get_user_tokens(tokens, username, t) ==
    LET bucket == Bucket(tokens, username)
        order == SortedByApiName(bucket, DOMAIN bucket)
        diff(h) == TotalSecondsInt(bucket[h].expiry - t)
    IN  [i \in 1..Len(order) |->
            [api_name |-> bucket[order[i]].api_name,
             token |-> bucket[order[i]].token,
             created_at |-> bucket[order[i]].created_at,
             expires_at |-> bucket[order[i]].expiry,
             expires_in_seconds |-> IF diff(order[i]) > 0 THEN diff(order[i]) ELSE 0,
             expires_in_human |-> _format_duration(IF diff(order[i]) > 0
                                                   THEN diff(order[i]) ELSE 0)]]

\* a status whose remaining leaves out one slot
get_user_token_status_less(tokens, users, username) ==
    LET user_config == get_user_config(users, username)
        token_limit == Get(user_config, "token_limit", 0)
        active_count == Cardinality(DOMAIN Bucket(tokens, username))
    IN  IF user_config = None THEN [error |-> "User not found"]
        ELSE [username |-> username,
              active_tokens |-> active_count,
              token_limit |-> IF token_limit > 0 THEN [int |-> token_limit]
                              ELSE [str |-> "unlimited"],
              remaining |-> IF token_limit > 0
                            THEN [int |-> token_limit - active_count - 1]
                            ELSE [str |-> "unlimited"]]

\* get_user_token_status(username), after its clean-up
get_user_token_status(tokens, users, username) ==
    LET user_config == get_user_config(users, username)
        token_limit == Get(user_config, "token_limit", 0)
        active_count == Cardinality(DOMAIN Bucket(tokens, username))
    IN  IF user_config = None THEN [error |-> "User not found"]
        ELSE [username |-> username,
              active_tokens |-> active_count,
              token_limit |-> IF token_limit > 0 THEN [int |-> token_limit]
                              ELSE [str |-> "unlimited"],
              remaining |-> IF token_limit > 0 THEN [int |-> token_limit - active_count]
                            ELSE [str |-> "unlimited"]]

(***************************************************************************)
(* Token introspection (auth.get_current_user, auth.get_token_info).       *)
(***************************************************************************)
Invalid == [status |-> 401, detail |-> "Invalid or expired token"]
Disabled == [status |-> 401, detail |-> "User account is disabled"]

\* get_current_user with the enabled flags as they were loaded at start-up
get_current_user_cached(users, token, t) ==
    LET payload == jwt_decode(token, t)
    IN  IF payload = JWTError THEN Invalid
        ELSE LET user_config == get_user_config(users, payload.sub)
             IN  IF user_config = None THEN Invalid
                 ELSE IF ~Get(get_user_config(API_USERS_0, payload.sub), "enabled", TRUE)
                      THEN Disabled
                 ELSE [status |-> 200, username |-> payload.sub]

\* get_current_user that also wants the token's record in the registry
get_current_user_registered(users, token, t) ==
    LET payload == jwt_decode(token, t)
    IN  IF payload = JWTError THEN Invalid
        ELSE LET user_config == get_user_config(users, payload.sub)
             IN  IF user_config = None THEN Invalid
                 ELSE IF ~Get(user_config, "enabled", TRUE) THEN Disabled
                 ELSE IF \A u \in DOMAIN _active_tokens :
                            _hash_token(token) \notin DOMAIN _active_tokens[u]
                      THEN Invalid
                 ELSE [status |-> 200, username |-> payload.sub]

\* get_current_user that tells the caller when the subject is not in the store
get_current_user_tells_unknown(users, token, t) ==
    LET payload == jwt_decode(token, t)
    IN  IF payload = JWTError THEN Invalid
        ELSE IF "sub" \notin DOMAIN payload THEN Invalid
        ELSE LET user_config == get_user_config(users, payload.sub)
             IN  IF user_config = None
                 THEN [status |-> 401, detail |-> "User not found"]
                 ELSE IF ~Get(user_config, "enabled", TRUE) THEN Disabled
                 ELSE [status |-> 200, username |-> payload.sub]

\* get_current_user(credentials) at time t: the username, or the HTTPException
get_current_user(users, token, t) ==
    LET payload == jwt_decode(token, t)
    IN  IF payload = JWTError THEN Invalid
        ELSE IF "sub" \notin DOMAIN payload THEN Invalid
        ELSE LET user_config == get_user_config(users, payload.sub)
             IN  IF user_config = None THEN Invalid
                 ELSE IF ~Get(user_config, "enabled", TRUE) THEN Disabled
                 ELSE [status |-> 200, username |-> payload.sub]

\* a lookup that first cleans up the bucket of every user
registry_after_get_token_api_name_sweeping(tokens, token, t) ==
    [u \in DOMAIN tokens |->
        [h \in {k \in DOMAIN tokens[u] : tokens[u][k].expiry > t} |-> tokens[u][h]]]

\* the registry get_token_api_name(token) leaves at time t: it only reads
registry_after_get_token_api_name(tokens, token, t) == tokens

\* get_token_api_name(token)
get_token_api_name(tokens, token) ==
    LET token_hash == _hash_token(token)
        holders == {u \in DOMAIN tokens : token_hash \in DOMAIN tokens[u]}
    IN  IF holders = {} THEN None
        ELSE tokens[CHOOSE u \in holders : TRUE][token_hash].api_name

\* get_token_info(token) at time t
get_token_info(tokens, token, t) ==
    LET payload == jwt_decode(token, t)
    IN  IF payload = JWTError THEN [valid |-> FALSE]
        ELSE LET api_name == IF payload.api_name # << >> THEN payload.api_name
                             ELSE get_token_api_name(tokens, token)
                 expires_at == FromTimestamp(payload.exp)
                 diff == TotalSecondsInt(expires_at - t)
             IN  [valid |-> TRUE, username |-> payload.sub, api_name |-> api_name,
                  issued_at |-> FromTimestamp(payload.iat), expires_at |-> expires_at,
                  expires_in_seconds |-> IF diff > 0 THEN diff ELSE 0,
                  expires_in_human |-> _format_duration(IF diff > 0 THEN diff ELSE 0)]

(***************************************************************************)
(* State.                                                                  *)
(***************************************************************************)
NoToken == [sub |-> "", exp |-> 0, iat |-> 0, jti |-> 0, api_name |-> << >>, key |-> ""]
NoResponse == [op |-> "none"]

IdleReq == [pc |-> "idle", username |-> "", password |-> "", active_count |-> 0,
            api_name |-> << >>]

Init ==
    /\ now = 0
    /\ API_USERS = API_USERS_0
    /\ _active_tokens = << >>
    /\ req = [r \in Requests |-> IdleReq]
    /\ loop = NoReq
    /\ issued = {}
    /\ response = NoResponse
    /\ burst = [started |-> 0, left |-> 0]

\* handlers that run on threads: any request may run at any time
CanRun_threads(r) == TRUE

\* login is an async def without an await: once its handler runs on the event
\* loop it runs to its return before any other handler runs
CanRun(r) == loop = NoReq \/ loop = r

\* the response of POST /auth/token to request r
LoginResponse(r, result) ==
    [op |-> "login", request |-> r, username |-> req[r].username,
     password |-> req[r].password, result |-> result]

(***************************************************************************)
(* POST /auth/token (routes.login, auth.create_access_token), step by      *)
(* step: the clock is read at each clean-up and when the token is minted.  *)
(***************************************************************************)
\* a client sends a request; it waits for the event loop
LoginArrive(r, username, password) ==
    /\ req[r].pc = "idle"
    /\ req' = [req EXCEPT ![r] = [IdleReq EXCEPT !.pc = "queued",
                                    !.username = username, !.password = password]]
    /\ response' = NoResponse
    /\ UNCHANGED <<now, API_USERS, _active_tokens, loop, issued, burst>>

\* routes.py 63-67: verify_credentials, 401 on failure
LoginVerify(r) ==
    /\ req[r].pc = "queued"
    /\ CanRun(r)
    /\ IF verify_credentials(API_USERS, req[r].username, req[r].password)
       THEN /\ req' = [req EXCEPT ![r].pc = "create"]
            /\ loop' = r
            /\ response' = NoResponse
       ELSE /\ req' = [req EXCEPT ![r] = IdleReq]
            /\ loop' = NoReq
            /\ response' = LoginResponse(r,
                    [status |-> 401, detail |-> "Invalid username or password"])
    /\ UNCHANGED <<now, API_USERS, _active_tokens, issued, burst>>

\* auth.py 162-178: the user's record and the limit check
CheckLimit(r) ==
    /\ req[r].pc = "create"
    /\ CanRun(r)
    /\ LET username == req[r].username
           user_config == get_user_config(API_USERS, username)
       IN  IF user_config = None
           THEN /\ req' = [req EXCEPT ![r] = IdleReq]
                /\ loop' = NoReq
                /\ response' = LoginResponse(r,
                        [status |-> 401, detail |-> "User not found"])
                /\ UNCHANGED _active_tokens
           ELSE IF Get(user_config, "token_limit", 0) > 0
           THEN LET swept == _cleanup_expired_tokens(_active_tokens, username, now)
                    active_count == _count_active_tokens(swept, username)
                IN  /\ _active_tokens' = swept
                    /\ IF LimitReached(active_count, Get(user_config, "token_limit", 0))
                       THEN /\ req' = [req EXCEPT ![r] = IdleReq]
                            /\ loop' = NoReq
                            /\ response' = LoginResponse(r,
                                    [status |-> 429,
                                     detail |-> "Token limit reached",
                                     active_count |-> active_count,
                                     token_limit |-> Get(user_config, "token_limit", 0)])
                       ELSE /\ req' = [req EXCEPT ![r].pc = "name",
                                         ![r].active_count = active_count]
                            /\ loop' = r
                            /\ response' = NoResponse
           ELSE /\ req' = [req EXCEPT ![r].pc = "name"]
                /\ loop' = r
                /\ response' = NoResponse
                /\ UNCHANGED _active_tokens
    /\ UNCHANGED <<now, API_USERS, issued, burst>>

\* auth.py 181: api_name = _get_next_api_name(username)
AssignSlot(r) ==
    /\ req[r].pc = "name"
    /\ CanRun(r)
    /\ LET swept == _cleanup_expired_tokens(_active_tokens, req[r].username, now)
       IN  /\ _active_tokens' = swept
           /\ req' = [req EXCEPT ![r].pc = "mint",
                        ![r].api_name = _get_next_api_name(swept, req[r].username)]
    /\ loop' = r
    /\ response' = NoResponse
    /\ UNCHANGED <<now, API_USERS, issued, burst>>

\* auth.py 183-203 and routes.py 70-74: the expiry, the claims, jwt.encode,
\* _register_token and the response; the handler returns
Mint(r, jti) ==
    /\ req[r].pc = "mint"
    /\ CanRun(r)
    /\ LET username == req[r].username
           api_name == req[r].api_name
           expire == now + expires_delta
           encoded_jwt == jwt_encode(username, expire, now, jti, api_name,
                                     JWT_SECRET_KEY)
       IN  /\ _active_tokens' = _register_token(_active_tokens, username,
                                    encoded_jwt, expire, api_name, now)
           /\ response' = LoginResponse(r,
                    [status |-> 200, access_token |-> encoded_jwt,
                     expires_in |-> TotalSecondsInt(expires_delta),
                     api_name |-> api_name])
           /\ issued' = issued \cup {[access_token |-> encoded_jwt,
                                       api_name |-> api_name,
                                       username |-> username,
                                       expire |-> expire]}
    /\ req' = [req EXCEPT ![r] = IdleReq]
    /\ loop' = NoReq
    /\ UNCHANGED <<now, API_USERS, burst>>

(***************************************************************************)
(* GET /auth/my-tokens and GET /auth/token-status: get_current_user, then  *)
(* the registry function of the user it returned.                          *)
(***************************************************************************)
\* routes.my_tokens -> auth.get_user_tokens
MyTokens(token) ==
    /\ loop = NoReq
    /\ LET user == get_current_user(API_USERS, token, now)
           swept == _cleanup_expired_tokens(_active_tokens, user.username, now)
       IN  IF user.status = 200
           THEN /\ _active_tokens' = swept
                /\ response' = [op |-> "my_tokens", token |-> token,
                                result |-> [status |-> 200,
                                            username |-> user.username,
                                            tokens |-> get_user_tokens(swept, user.username, now)]]
           ELSE /\ UNCHANGED _active_tokens
                /\ response' = [op |-> "my_tokens", token |-> token, result |-> user]
    /\ UNCHANGED <<now, API_USERS, req, loop, issued, burst>>

\* routes.my_tokens -> auth.get_user_tokens when the clock moves on between
\* the reading of the clean-up (auth.py 29) and the reading the remaining
\* times are taken from (auth.py 101)
MyTokensSlow(token) ==
    /\ loop = NoReq
    /\ now < MaxTime
    /\ LET user == get_current_user(API_USERS, token, now)
           swept == _cleanup_expired_tokens(_active_tokens, user.username, now)
       IN  /\ user.status = 200
           /\ _active_tokens' = swept
           /\ response' = [op |-> "my_tokens", token |-> token,
                           result |-> [status |-> 200,
                                       username |-> user.username,
                                       tokens |-> get_user_tokens(swept, user.username,
                                                                  now + 1)]]
    /\ now' = now + 1
    /\ issued' = {g \in issued : g.access_token.exp >= Seconds(now + 1)}
    /\ UNCHANGED <<API_USERS, req, loop, burst>>

\* routes.token_status -> auth.get_user_token_status
TokenStatus(token) ==
    /\ loop = NoReq
    /\ LET user == get_current_user(API_USERS, token, now)
           swept == _cleanup_expired_tokens(_active_tokens, user.username, now)
       IN  IF user.status = 200
           THEN /\ _active_tokens' = swept
                /\ response' = [op |-> "token_status", token |-> token,
                                result |-> [status |-> 200,
                                            body |-> get_user_token_status(swept,
                                                        API_USERS, user.username)]]
           ELSE /\ UNCHANGED _active_tokens
                /\ response' = [op |-> "token_status", token |-> token, result |-> user]
    /\ UNCHANGED <<now, API_USERS, req, loop, issued, burst>>

\* a request that depends on get_current_user; the dependency is a plain def,
\* run on a worker thread whatever the event loop is doing
Validate(token) ==
    /\ response' = [op |-> "validate", token |-> token,
                    result |-> get_current_user(API_USERS, token, now)]
    /\ UNCHANGED <<now, API_USERS, _active_tokens, req, loop, issued, burst>>

\* routes.token_info: get_current_user, then auth.get_token_info
TokenInfo(token) ==
    /\ loop = NoReq
    /\ LET user == get_current_user(API_USERS, token, now)
       IN  response' = [op |-> "token_info", token |-> token,
                        result |-> IF user.status = 200
                                   THEN get_token_info(_active_tokens, token, now)
                                   ELSE user]
    /\ UNCHANGED <<now, API_USERS, _active_tokens, req, loop, issued, burst>>

\* a token signed with the key of the service that carries no api_name
\* claim and was never registered
LegacyToken ==
    [sub |-> "alice", exp |-> Seconds(MaxTime) + 1, iat |-> 0, jti |-> 0,
     api_name |-> << >>, key |-> JWT_SECRET_KEY]

\* a call of get_token_api_name(token) (auth.py 280 calls it from
\* get_token_info for a token without an api_name claim)
LookupSlot(token) ==
    /\ loop = NoReq
    /\ _active_tokens' = registry_after_get_token_api_name(_active_tokens, token, now)
    /\ response' = [op |-> "get_token_api_name", token |-> token,
                    result |-> get_token_api_name(_active_tokens, token)]
    /\ UNCHANGED <<now, API_USERS, req, loop, issued, burst>>

\* the tokens presented to get_current_user by callers who make them up: for
\* each subject, key and exp a token with these claims, the same without a
\* sub claim, and a text that is no JWT
PresentedSubjects == {"alice", "carol", "erin", "mallory"}
PresentedKeys == {JWT_SECRET_KEY, "another-key"}
PresentedExps == 0..(Seconds(MaxTime) + 1)
PresentedTokens ==
    {[sub |-> sub, exp |-> exp, iat |-> 0, jti |-> 0, api_name |-> << >>, key |-> key] :
        sub \in PresentedSubjects, exp \in PresentedExps, key \in PresentedKeys}
    \cup {[exp |-> exp, iat |-> 0, jti |-> 0, api_name |-> << >>, key |-> key] :
            exp \in PresentedExps, key \in PresentedKeys}
    \cup {[text |-> "not-a-jwt"]}

\* the numbers of seconds _format_duration is called with: negative ones,
\* and every sum of days, hours, minutes and seconds taken at the ends of
\* their ranges
DurationInputs ==
    {d * 86400 + h * 3600 + m * 60 + sec :
        d \in 0..MaxDays, h \in {0, 1, 23}, m \in {0, 1, 59}, sec \in {0, 1, 45, 59}}
    \cup {-1, -90000}

\* a call of _format_duration(seconds)
FormatDuration(seconds) ==
    /\ response' = [op |-> "_format_duration", seconds |-> seconds,
                    result |-> _format_duration(seconds)]
    /\ UNCHANGED <<now, API_USERS, _active_tokens, req, loop, issued, burst>>

\* the response of routes.login to (username, password) at time t, the
\* handler run to its return: 401, the 429 of create_access_token, or the
\* token, its lifetime and its slot name
login_result(tokens, users, username, password, t, jti) ==
    LET user_config == get_user_config(users, username)
        swept == _cleanup_expired_tokens(tokens, username, t)
        active_count == _count_active_tokens(swept, username)
        api_name == _get_next_api_name(swept, username)
        expire == t + expires_delta
        encoded_jwt == jwt_encode(username, expire, t, jti, api_name, JWT_SECRET_KEY)
    IN  IF ~verify_credentials(users, username, password)
        THEN [status |-> 401, detail |-> "Invalid username or password"]
        ELSE IF user_config = None
        THEN [status |-> 401, detail |-> "User not found"]
        ELSE IF Get(user_config, "token_limit", 0) > 0
                /\ LimitReached(active_count, Get(user_config, "token_limit", 0))
        THEN [status |-> 429, detail |-> "Token limit reached",
              active_count |-> active_count,
              token_limit |-> Get(user_config, "token_limit", 0)]
        ELSE [status |-> 200, access_token |-> encoded_jwt,
              expires_in |-> TotalSecondsInt(expires_delta), api_name |-> api_name]

\* a create_access_token that registers the token before it checks the limit
create_access_token_register_first(tokens, users, username, t, jti) ==
    LET user_config == get_user_config(users, username)
        swept == _cleanup_expired_tokens(tokens, username, t)
        api_name == _get_next_api_name(swept, username)
        expire == t + expires_delta
        encoded_jwt == jwt_encode(username, expire, t, jti, api_name, JWT_SECRET_KEY)
    IN  IF user_config = None THEN tokens
        ELSE _register_token(swept, username, encoded_jwt, expire, api_name, t)

\* create_access_token(username) run to its return at time t: the registry
\* it leaves (the clean-ups, and the new record unless the limit is reached)
create_access_token(tokens, users, username, t, jti) ==
    LET user_config == get_user_config(users, username)
        swept == _cleanup_expired_tokens(tokens, username, t)
        api_name == _get_next_api_name(swept, username)
        expire == t + expires_delta
        encoded_jwt == jwt_encode(username, expire, t, jti, api_name, JWT_SECRET_KEY)
    IN  IF user_config = None THEN tokens
        ELSE IF Get(user_config, "token_limit", 0) > 0
                /\ LimitReached(_count_active_tokens(swept, username),
                                Get(user_config, "token_limit", 0))
        THEN swept
        ELSE _register_token(swept, username, encoded_jwt, expire, api_name, t)

\* the user without a limit starts a burst of n logins
StartBurst(username, n) ==
    /\ loop = NoReq
    /\ burst.left = 0
    /\ burst.started < MaxBursts
    /\ LET bucket == Bucket(_active_tokens, username)
       IN  Cardinality({h \in DOMAIN bucket : bucket[h].expiry > now}) + n <= MaxBucket
    /\ burst' = [started |-> burst.started + 1, left |-> n]
    /\ response' = NoResponse
    /\ UNCHANGED <<now, API_USERS, _active_tokens, req, loop, issued>>

\* one login of the burst, handled from routes.login to its return with no
\* tick in between; the jti is one no other burst uses
BurstLogin(username, password) ==
    /\ loop = NoReq
    /\ burst.left > 0
    /\ _active_tokens' = IF verify_credentials(API_USERS, username, password)
                         THEN create_access_token(_active_tokens, API_USERS,
                                                  username, now,
                                                  MaxJti + burst.started)
                         ELSE _active_tokens
    /\ burst' = [burst EXCEPT !.left = burst.left - 1]
    /\ response' = NoResponse
    /\ UNCHANGED <<now, API_USERS, req, loop, issued>>

\* POST /auth/token handled from routes.login to its return with no tick in
\* between, and the response it sends
Login(username, password, jti) ==
    /\ loop = NoReq
    /\ LET result == login_result(_active_tokens, API_USERS, username, password,
                                  now, jti)
       IN  /\ response' = [op |-> "login", request |-> "r1", username |-> username,
                           password |-> password, result |-> result]
           /\ issued' = IF result.status = 200
                        THEN issued \cup {[access_token |-> result.access_token,
                                           api_name |-> result.api_name,
                                           username |-> username,
                                           expire |-> now + expires_delta]}
                        ELSE issued
    /\ _active_tokens' = IF verify_credentials(API_USERS, username, password)
                         THEN create_access_token(_active_tokens, API_USERS,
                                                  username, now, jti)
                         ELSE _active_tokens
    /\ UNCHANGED <<now, API_USERS, req, loop, burst>>

\* the clock advances; clients drop the tokens jose no longer accepts
Tick ==
    /\ now < MaxTime
    /\ burst.left = 0
    /\ now' = now + 1
    /\ issued' = {g \in issued : g.access_token.exp >= Seconds(now + 1)}
    /\ response' = NoResponse
    /\ UNCHANGED <<API_USERS, _active_tokens, req, loop, burst>>

\* an operator edits the credential store: the enabled flag of a user
SetEnabled(username, enabled) ==
    /\ username \in DOMAIN API_USERS
    /\ API_USERS[username].enabled # enabled
    /\ API_USERS' = [API_USERS EXCEPT ![username].enabled = enabled]
    /\ response' = NoResponse
    /\ UNCHANGED <<now, _active_tokens, req, loop, issued, burst>>

Next ==
    \/ \E r \in Requests : \E in \in LoginInputs : LoginArrive(r, in[1], in[2])
    \/ \E r \in Requests : LoginVerify(r)
    \/ \E r \in Requests : CheckLimit(r)
    \/ \E r \in Requests : AssignSlot(r)
    \/ \E r \in Requests : \E jti \in 1..MaxJti : Mint(r, jti)
    \/ \E g \in issued : MyTokens(g.access_token)
    \/ \E g \in issued : TokenStatus(g.access_token)
    \/ Tick

Spec == Init /\ [][Next]_vars

\* the program, one login at a time, with the requests that present a token
NextIntro ==
    \/ \E in \in IntroLoginInputs : LoginArrive("r1", in[1], in[2])
    \/ LoginVerify("r1")
    \/ CheckLimit("r1")
    \/ AssignSlot("r1")
    \/ \E jti \in 1..MaxJti : Mint("r1", jti)
    \/ \E g \in issued : MyTokens(g.access_token)
    \/ \E g \in issued : Validate(g.access_token)
    \/ \E g \in issued : TokenInfo(g.access_token)
    \/ Tick

SpecIntro == Init /\ [][NextIntro]_vars

\* the same for one user, with an operator who edits the credential store
NextAdmin ==
    \/ \E in \in AdminLoginInputs : LoginArrive("r1", in[1], in[2])
    \/ LoginVerify("r1")
    \/ CheckLimit("r1")
    \/ AssignSlot("r1")
    \/ \E jti \in 1..MaxJti : Mint("r1", jti)
    \/ \E g \in issued : MyTokens(g.access_token)
    \/ \E g \in issued : TokenStatus(g.access_token)
    \/ \E g \in issued : Validate(g.access_token)
    \/ \E g \in issued : TokenInfo(g.access_token)
    \/ Tick
    \/ \E username \in Operated : \E enabled \in BOOLEAN :
            SetEnabled(username, enabled)

SpecAdmin == Init /\ [][NextAdmin]_vars

\* the user without a limit logging in in bursts, and the clock
NextSlots ==
    \/ \E n \in BurstSizes : StartBurst("dave", n)
    \/ BurstLogin("dave", "pw_dave")
    \/ Tick

SpecSlots == Init /\ [][NextSlots]_vars

\* logins and list requests of two users, and lookups of slot names by token
NextLookup ==
    \/ \E in \in IntroLoginInputs : LoginArrive("r1", in[1], in[2])
    \/ LoginVerify("r1")
    \/ CheckLimit("r1")
    \/ AssignSlot("r1")
    \/ \E jti \in 1..MaxJti : Mint("r1", jti)
    \/ \E g \in issued : MyTokens(g.access_token)
    \/ \E g \in issued : LookupSlot(g.access_token)
    \/ LookupSlot(LegacyToken)
    \/ TokenInfo(LegacyToken)
    \/ Tick

SpecLookup == Init /\ [][NextLookup]_vars

\* the holder of the user's token with this slot name asks for the list
MyTokensOfSlot(username, api_name) ==
    \E h \in DOMAIN Bucket(_active_tokens, username) :
        /\ _active_tokens[username][h].api_name = api_name
        /\ MyTokens(_active_tokens[username][h].token)

\* a burst that leaves at most MaxListed records in the bucket
StartListBurst(username, n) ==
    /\ Cardinality(DOMAIN Bucket(_active_tokens, username)) + n <= MaxListed
    /\ StartBurst(username, n)

\* the user without a limit logging in in bursts and listing the tokens
NextList ==
    \/ \E n \in ListBurstSizes : StartListBurst("dave", n)
    \/ BurstLogin("dave", "pw_dave")
    \/ MyTokensOfSlot("dave", ApiName(1))
    \/ Tick

SpecList == Init /\ [][NextList]_vars

\* get_current_user on made-up tokens, while the clock advances and an
\* operator edits the credential store
NextValidate ==
    \/ \E token \in PresentedTokens : Validate(token)
    \/ Tick
    \/ \E username \in Operated : \E enabled \in BOOLEAN :
            SetEnabled(username, enabled)

SpecValidate == Init /\ [][NextValidate]_vars

\* calls of _format_duration
NextDuration == \E seconds \in DurationInputs : FormatDuration(seconds)

SpecDuration == Init /\ [][NextDuration]_vars

\* a user without a limit who holds fewer than MaxHeld records sends a
\* login; each run follows one such user
LoginArriveUnlimited(r, username, password) ==
    /\ DOMAIN _active_tokens \subseteq {username}
    /\ Cardinality(DOMAIN Bucket(_active_tokens, username)) < MaxHeld
    /\ LoginArrive(r, username, password)

\* the users without a limit logging in one at a time and asking for their
\* status
NextUnlimited ==
    \/ \E in \in UnlimitedLoginInputs : LoginArriveUnlimited("r1", in[1], in[2])
    \/ LoginVerify("r1")
    \/ CheckLimit("r1")
    \/ AssignSlot("r1")
    \/ \E jti \in 1..MaxJti : Mint("r1", jti)
    \/ \E g \in issued : TokenStatus(g.access_token)
    \/ Tick

SpecUnlimited == Init /\ [][NextUnlimited]_vars

\* logins that succeed and logins that fail, each handled in one piece, and
\* the clock
NextFail ==
    \/ \E in \in LoginInputs \cup IntroLoginInputs : \E jti \in 1..MaxJti :
            Login(in[1], in[2], jti)
    \/ Tick

SpecFail == Init /\ [][NextFail]_vars

\* two users who log in, each login handled in one piece, and ask for the
\* list of their tokens
NextOwn ==
    \/ \E in \in IntroLoginInputs : \E jti \in 1..MaxJti : Login(in[1], in[2], jti)
    \/ \E g \in issued : MyTokens(g.access_token)
    \/ Tick

SpecOwn == Init /\ [][NextOwn]_vars

\* two users who log in, each login handled in one piece, and ask for the
\* slot name of their tokens, by the claims and by the registry
NextAgree ==
    \/ \E in \in IntroLoginInputs : \E jti \in 1..MaxJti : Login(in[1], in[2], jti)
    \/ \E g \in issued : TokenInfo(g.access_token)
    \/ \E g \in issued : LookupSlot(g.access_token)
    \/ Tick

SpecAgree == Init /\ [][NextAgree]_vars

\* two users who log in, each login handled in one piece, and ask for the
\* list of their tokens, the clock standing still or moving on during the
\* list
NextClock ==
    \/ \E in \in IntroLoginInputs : \E jti \in 1..MaxJti : Login(in[1], in[2], jti)
    \/ \E g \in issued : MyTokens(g.access_token)
    \/ \E g \in issued : MyTokensSlow(g.access_token)
    \/ Tick

SpecClock == Init /\ [][NextClock]_vars

\* two users who log in, step by step, and ask for the list of their tokens
NextSteps ==
    \/ \E in \in IntroLoginInputs : LoginArrive("r1", in[1], in[2])
    \/ LoginVerify("r1")
    \/ CheckLimit("r1")
    \/ AssignSlot("r1")
    \/ \E jti \in 1..MaxJti : Mint("r1", jti)
    \/ \E g \in issued : MyTokens(g.access_token)
    \/ Tick

SpecSteps == Init /\ [][NextSteps]_vars

(***************************************************************************)
(* Notions the properties share.                                           *)
(***************************************************************************)
\* the user's bucket in the current state
BucketOf(username) == Bucket(_active_tokens, username)

\* the keys of the user's records whose expiry is still in the future
LiveKeys(username) ==
    {h \in DOMAIN BucketOf(username) : BucketOf(username)[h].expiry > now}

\* the slot names in the user's bucket
NamesOf(username) ==
    {BucketOf(username)[h].api_name : h \in DOMAIN BucketOf(username)}

\* the users with a positive token_limit
LimitedUsers ==
    {u \in DOMAIN API_USERS :
        Get(get_user_config(API_USERS, u), "token_limit", 0) > 0}

\* a login request that is past verify_credentials and has not returned
InHandler(r) == req[r].pc \in {"create", "name", "mint"}

(***************************************************************************)
(* C1: for a user with token_limit L > 0 the number of records of the user *)
(* whose expiry is still in the future never exceeds L, in every state,    *)
(* hence whenever an issuance is attempted or completes.                   *)
(***************************************************************************)
C1_LiveWithinLimit ==
    \A u \in LimitedUsers : Cardinality(LiveKeys(u)) <= API_USERS[u].token_limit

\* an issuance has just completed and the user is at the limit
C1_Witness ==
    /\ response.op = "login"
    /\ response.result.status = 200
    /\ response.username \in LimitedUsers
    /\ Cardinality(LiveKeys(response.username))
         = API_USERS[response.username].token_limit

(***************************************************************************)
(* C2: two login requests of one user never run their limit check, slot    *)
(* assignment and registration interleaved: at most one request is inside  *)
(* the handler, the count a request observed is never below the number of  *)
(* records in the bucket while it goes on to register, and so the bucket   *)
(* never holds more than L records.                                        *)
(***************************************************************************)
C2_IssuanceSerialized ==
    /\ \A r1, r2 \in Requests : (r1 # r2) => ~(InHandler(r1) /\ InHandler(r2))
    /\ \A r \in Requests :
          (req[r].pc \in {"name", "mint"} /\ req[r].username \in LimitedUsers) =>
             /\ Cardinality(DOMAIN BucketOf(req[r].username)) <= req[r].active_count
             /\ req[r].active_count < API_USERS[req[r].username].token_limit
    /\ \A u \in LimitedUsers :
          Cardinality(DOMAIN BucketOf(u)) <= API_USERS[u].token_limit

\* one request has just taken the last free slot while another request of
\* the same user, with the right password, was waiting
C2_Witness ==
    /\ response.op = "login"
    /\ response.result.status = 200
    /\ response.username \in LimitedUsers
    /\ Cardinality(DOMAIN BucketOf(response.username))
         = API_USERS[response.username].token_limit
    /\ \E r \in Requests \ {response.request} :
          /\ req[r].pc = "queued"
          /\ req[r].username = response.username
          /\ req[r].password = response.password

(***************************************************************************)
(* C3: a login of an enabled user with token_limit N > 0 and the right     *)
(* password either succeeds, which leaves at most N records (the count     *)
(* before it was below N), or fails with 429 carrying the count and the    *)
(* limit, with count >= N and every counted record still in the registry   *)
(* and unexpired.                                                          *)
(***************************************************************************)
C3_LimitEnforced ==
    (/\ response.op = "login"
     /\ response.username \in LimitedUsers
     /\ API_USERS[response.username].enabled
     /\ API_USERS[response.username].password = response.password) =>
        LET u == response.username
            N == API_USERS[u].token_limit
            result == response.result
        IN  \/ /\ result.status = 200
               /\ _hash_token(result.access_token) \in DOMAIN BucketOf(u)
               /\ Cardinality(DOMAIN BucketOf(u)) - 1 < N
            \/ /\ result.status = 429
               /\ result.active_count = Cardinality(DOMAIN BucketOf(u))
               /\ result.token_limit = N
               /\ result.active_count >= N
               /\ LiveKeys(u) = DOMAIN BucketOf(u)

\* the (N+1)-th login is refused while the N records are all there
C3_Witness ==
    /\ response.op = "login"
    /\ response.username = "alice"
    /\ response.result.status = 429
    /\ Cardinality(LiveKeys("alice")) = API_USERS["alice"].token_limit

\* the user's bucket holds exactly the records that were unexpired before the step
SweptByStep(username) ==
    DOMAIN Bucket(_active_tokens', username) = LiveKeys(username)

\* the user's bucket holds no expired record after the step
NoExpiredAfterStep(username) ==
    \A h \in DOMAIN Bucket(_active_tokens', username) :
        Bucket(_active_tokens', username)[h].expiry > now

\* the user a presented token authenticates
UserOf(token) == get_current_user(API_USERS, token, now).username

(***************************************************************************)
(* C4, as stated: every registry access for a user, the registration of a  *)
(* new record included, leaves no expired record in the user's bucket.     *)
(***************************************************************************)
C4_EveryAccessSweeps ==
    [][\A r \in Requests :
          (/\ req[r].pc \in {"create", "name", "mint"}
           /\ req[r].username \in LimitedUsers
           /\ req'[r] # req[r]) => NoExpiredAfterStep(req[r].username)]_vars

(***************************************************************************)
(* C4, amended: the accesses that run the clean-up (the limit check and    *)
(* the slot assignment of an issuance, the list and the status request of  *)
(* an authenticated user) leave exactly the unexpired records in the       *)
(* user's bucket, and a limit check that finds fewer than L unexpired      *)
(* records lets the issuance go on.  The registration does not clean up.   *)
(***************************************************************************)
C4_SweepingAccessRemovesExpired ==
    [][/\ \A r \in Requests :
            (/\ \/ req[r].pc = "create" /\ req[r].username \in LimitedUsers
                \/ req[r].pc = "name"
             /\ req'[r] # req[r]) => SweptByStep(req[r].username)
       /\ \A r \in Requests :
            (/\ req[r].pc = "create"
             /\ req[r].username \in LimitedUsers
             /\ req'[r] # req[r]
             /\ Cardinality(LiveKeys(req[r].username))
                   < API_USERS[req[r].username].token_limit) => req'[r].pc = "name"
       /\ (/\ response'.op \in {"my_tokens", "token_status"}
           /\ response'.result.status = 200) => SweptByStep(UserOf(response'.token))
      ]_vars

\* three tokens of a user at limit 3 have expired and are gone from the
\* bucket, and the user has just been issued a token again
C4_Witness ==
    /\ response.op = "login"
    /\ response.result.status = 200
    /\ response.username = "alice"
    /\ LET gone == {g \in issued : /\ g.username = "alice"
                                   /\ g.expire <= now
                                   /\ _hash_token(g.access_token)
                                        \notin DOMAIN BucketOf("alice")}
       IN  Cardinality(gone) = API_USERS["alice"].token_limit

LowestFree(names, api_name) ==
    \E n \in 1..99 :
        /\ api_name = ApiName(n)
        /\ ApiName(n) \notin names
        /\ \A m \in 1..(n - 1) : ApiName(m) \in names

(***************************************************************************)
(* C6: the slot a new token gets is API_n for the least n in 1..99 that no *)
(* record of the user's bucket (after the clean-up) carries: API_1 for an  *)
(* empty or absent bucket, and a freed slot is taken again.                *)
(***************************************************************************)
C6_LowestFreeSlot ==
    /\ \A r \in Requests :
          req[r].pc = "mint" => LowestFree(NamesOf(req[r].username), req[r].api_name)
    /\ (response.op = "login" /\ response.result.status = 200) =>
          LET u == response.username
              others == DOMAIN BucketOf(u) \ {_hash_token(response.result.access_token)}
          IN  /\ LowestFree({BucketOf(u)[h].api_name : h \in others},
                            response.result.api_name)
              /\ others = {} => response.result.api_name = ApiName(1)

\* API_2 has expired while API_1 and API_3 are live, and the new token is API_2
C6_Witness ==
    /\ response.op = "login"
    /\ response.result.status = 200
    /\ response.result.api_name = ApiName(2)
    /\ LET u == response.username
       IN  \E h1, h3 \in LiveKeys(u) :
              /\ BucketOf(u)[h1].api_name = ApiName(1)
              /\ BucketOf(u)[h3].api_name = ApiName(3)
              /\ BucketOf(u)[h1].created_at < now
              /\ BucketOf(u)[h3].created_at < now

\* the token carries a signature of this service and its exp has not passed
Acceptable(token) == token.key = JWT_SECRET_KEY /\ token.exp >= Seconds(now)

(***************************************************************************)
(* C7: the enabled flag is read at each validation: while the user of an   *)
(* otherwise acceptable token is disabled, get_current_user fails with     *)
(* 401 "User account is disabled", for the call just answered and for any  *)
(* call made now.                                                          *)
(***************************************************************************)
C7_DisabledUserRejected ==
    /\ (/\ response.op = "validate"
        /\ Acceptable(response.token)
        /\ response.token.sub \in DOMAIN API_USERS
        /\ ~API_USERS[response.token.sub].enabled)
           => response.result = [status |-> 401, detail |-> "User account is disabled"]
    /\ \A g \in issued :
          (g.username \in DOMAIN API_USERS /\ ~API_USERS[g.username].enabled)
             => get_current_user(API_USERS, g.access_token, now)
                   = [status |-> 401, detail |-> "User account is disabled"]

\* a user who was enabled at start-up and got a token is now disabled, and
\* the validation of the token has just failed
C7_Witness ==
    /\ response.op = "validate"
    /\ response.result = [status |-> 401, detail |-> "User account is disabled"]
    /\ API_USERS_0[response.token.sub].enabled
    /\ \E g \in issued : g.access_token = response.token /\ now < g.expire

(***************************************************************************)
(* C8: a token returned by an issuance, presented at any instant before    *)
(* its expires_at, validates to the username it was issued to, and its     *)
(* inspection is valid with that username and the slot name the issuance   *)
(* returned (credential store unchanged).                                  *)
(***************************************************************************)
C8_IssueValidateRoundTrip ==
    /\ \A g \in issued :
          now < g.expire =>
             /\ get_current_user(API_USERS, g.access_token, now)
                   = [status |-> 200, username |-> g.username]
             /\ get_token_info(_active_tokens, g.access_token, now).valid
             /\ get_token_info(_active_tokens, g.access_token, now).username = g.username
             /\ get_token_info(_active_tokens, g.access_token, now).api_name = g.api_name
    /\ \A g \in issued :
          (/\ response.op = "validate"
           /\ response.token = g.access_token
           /\ now < g.expire) => response.result = [status |-> 200, username |-> g.username]
    /\ \A g \in issued :
          (/\ response.op = "token_info"
           /\ response.token = g.access_token
           /\ now < g.expire) =>
                /\ response.result.valid
                /\ response.result.username = g.username
                /\ response.result.api_name = g.api_name
    /\ (response.op = "login" /\ response.result.status = 200) =>
          /\ response.result.access_token.sub = response.username
          /\ response.result.access_token.api_name = response.result.api_name

\* a token is inspected in the last tick before its expires_at, in the
\* second of its exp, and the inspection names its user and its slot
C8_Witness ==
    /\ response.op = "token_info"
    /\ \E g \in issued :
          /\ response.token = g.access_token
          /\ now + 1 = g.expire
          /\ g.access_token.exp = Seconds(now)
          /\ response.result.valid
          /\ response.result.api_name = g.api_name

(***************************************************************************)
(* C9: nothing revokes a token before its expiry: as long as the instant   *)
(* is not after expires_at and the user is present and enabled, the token  *)
(* validates to its user, whether or not the registry still holds its      *)
(* record.                                                                 *)
(***************************************************************************)
C9_NoRevocationBeforeExpiry ==
    /\ \A g \in issued :
          (/\ now <= g.expire
           /\ g.username \in DOMAIN API_USERS
           /\ API_USERS[g.username].enabled)
             => get_current_user(API_USERS, g.access_token, now)
                   = [status |-> 200, username |-> g.username]
    /\ \A g \in issued :
          (/\ response.op = "validate"
           /\ response.token = g.access_token
           /\ now <= g.expire
           /\ g.username \in DOMAIN API_USERS
           /\ API_USERS[g.username].enabled)
             => response.result = [status |-> 200, username |-> g.username]

\* the record of a token is gone from the registry and the token has just
\* validated
C9_Witness ==
    /\ response.op = "validate"
    /\ response.result.status = 200
    /\ \E g \in issued :
          /\ g.access_token = response.token
          /\ now <= g.expire
          /\ _hash_token(g.access_token) \notin DOMAIN BucketOf(g.username)

\* the response to a login whose credentials are refused
Unauthorized == [status |-> 401, detail |-> "Invalid username or password"]

\* the answered login was for an unknown user, with a wrong password, or for
\* a disabled user
UnknownUser == response.username \notin DOMAIN API_USERS
WrongPassword ==
    /\ response.username \in DOMAIN API_USERS
    /\ API_USERS[response.username].password # response.password
DisabledUser ==
    /\ response.username \in DOMAIN API_USERS
    /\ API_USERS[response.username].password = response.password
    /\ ~API_USERS[response.username].enabled

(***************************************************************************)
(* C10: a login for an unknown user, with a wrong password, or for a       *)
(* disabled user gets one and the same 401 response, and the step that     *)
(* answers it mints no token and leaves the registry as it was.            *)
(***************************************************************************)
C10_SameUnauthorizedResponse ==
    /\ [](response.op = "login" =>
            /\ UnknownUser => response.result = Unauthorized
            /\ WrongPassword => response.result = Unauthorized
            /\ DisabledUser => response.result = Unauthorized)
    /\ [][(response'.op = "login" /\ response'.result.status = 401) =>
            /\ _active_tokens' = _active_tokens
            /\ issued' = issued]_vars

\* the three failing logins have been answered: the witness is the disabled
\* user with the right password
C10_Witness ==
    /\ response.op = "login"
    /\ DisabledUser
    /\ response.result = Unauthorized

\* the token_limit the code works with for a user of the store
TokenLimitOf(username) ==
    Get(get_user_config(API_USERS, username), "token_limit", 0)

\* the store gives the user no limit: token_limit 0, or no token_limit key
\* (a bare password entry has none)
NoLimitInStore(username) ==
    /\ username \in DOMAIN API_USERS
    /\ \/ "token_limit" \notin DOMAIN API_USERS[username]
       \/ API_USERS[username].token_limit = 0

(***************************************************************************)
(* C11: a login with the right password of an enabled user whose           *)
(* token_limit is 0 (given as 0, or a bare password entry, or a record     *)
(* with no token_limit key) is answered 200, never 429, however many       *)
(* records the user holds; the status of such a user reports token_limit   *)
(* and remaining as "unlimited".                                           *)
(***************************************************************************)
C11_UnlimitedNeverRateLimited ==
    /\ (/\ response.op = "login"
        /\ <<response.username, response.password>> \in UnlimitedLoginInputs
        /\ NoLimitInStore(response.username)) => response.result.status = 200
    /\ (/\ response.op = "token_status"
        /\ response.result.status = 200
        /\ NoLimitInStore(response.result.body.username)) =>
            /\ response.result.body.token_limit = [str |-> "unlimited"]
            /\ response.result.body.remaining = [str |-> "unlimited"]

\* the user given as a bare password holds more live tokens than any limit
\* of the store and has just been issued one more
C11_Witness ==
    /\ response.op = "login"
    /\ response.username = "erin"
    /\ response.result.status = 200
    /\ \A u \in LimitedUsers : Cardinality(LiveKeys("erin")) > TokenLimitOf(u)

(***************************************************************************)
(* C12: the status of a user with token_limit L > 0 is taken after the     *)
(* clean-up of the user's bucket: active_tokens is the number of records   *)
(* left, all unexpired, token_limit is L, remaining is L - active_tokens,  *)
(* and 0 <= remaining <= L.                                                *)
(***************************************************************************)
C12_StatusOfLimitedUser ==
    (/\ response.op = "token_status"
     /\ response.result.status = 200
     /\ ~NoLimitInStore(response.result.body.username)) =>
        LET body == response.result.body
            L == API_USERS[body.username].token_limit
        IN  /\ body.active_tokens = Cardinality(DOMAIN BucketOf(body.username))
            /\ DOMAIN BucketOf(body.username) = LiveKeys(body.username)
            /\ body.token_limit = [int |-> L]
            /\ body.remaining = [int |-> L - body.active_tokens]
            /\ 0 <= body.remaining.int
            /\ body.remaining.int <= L

\* the status reports no slot left after an expired record was removed
C12_Witness ==
    /\ response.op = "token_status"
    /\ response.result.status = 200
    /\ response.result.body.remaining = [int |-> 0]
    /\ \E g \in issued :
          /\ g.username = response.result.body.username
          /\ g.expire <= now
          /\ _hash_token(g.access_token) \notin DOMAIN BucketOf(g.username)

\* the step runs the clean-up of the user's bucket: the limit check or the
\* slot assignment of a login of the user, or a list or status request that
\* a token of the user authenticates
SweepOf(username) ==
    \/ \E r \in Requests :
          /\ req[r].pc \in {"create", "name"}
          /\ req[r].username = username
          /\ req'[r] # req[r]
    \/ /\ response'.op \in {"my_tokens", "token_status"}
       /\ response'.result.status = 200
       /\ UserOf(response'.token) = username

(***************************************************************************)
(* C13: no step removes or changes a record whose expiry is later than the *)
(* current time, and a record leaves the registry only in a step that runs *)
(* the clean-up of its own user's bucket.                                  *)
(***************************************************************************)
C13_RemovedOnlyBySweepWhenExpired ==
    [][\/ _active_tokens' = _active_tokens
       \/ \A u \in DOMAIN _active_tokens : \A h \in DOMAIN _active_tokens[u] :
            /\ _active_tokens[u][h].expiry > now =>
                  /\ h \in DOMAIN Bucket(_active_tokens', u)
                  /\ Bucket(_active_tokens', u)[h] = _active_tokens[u][h]
            /\ h \notin DOMAIN Bucket(_active_tokens', u) => SweepOf(u)]_vars

\* an expired record of one user has been removed while a record of that
\* user made before the expiry is still there, and an expired record of
\* another user is still in the registry
C13_Witness ==
    \E g1, g2 \in issued :
        /\ g1.username # g2.username
        /\ g1.expire <= now
        /\ g2.expire <= now
        /\ _hash_token(g1.access_token) \notin DOMAIN BucketOf(g1.username)
        /\ _hash_token(g2.access_token) \in DOMAIN BucketOf(g2.username)
        /\ \E h \in LiveKeys(g1.username) :
              BucketOf(g1.username)[h].created_at < g1.expire

(***************************************************************************)
(* C14: a record that is in the registry before and after a step has the   *)
(* same slot name, raw token, created_at and expiry after it: from its     *)
(* registration to its removal a record never changes.                     *)
(***************************************************************************)
C14_RecordsImmutable ==
    [][\A u \in DOMAIN _active_tokens : \A h \in DOMAIN _active_tokens[u] :
          h \in DOMAIN Bucket(_active_tokens', u) =>
             /\ Bucket(_active_tokens', u)[h].api_name = _active_tokens[u][h].api_name
             /\ Bucket(_active_tokens', u)[h].token = _active_tokens[u][h].token
             /\ Bucket(_active_tokens', u)[h].created_at = _active_tokens[u][h].created_at
             /\ Bucket(_active_tokens', u)[h].expiry = _active_tokens[u][h].expiry]_vars

\* a record made at an earlier tick is listed, after a later registration
\* for the same user, with the expiry it was registered with
C14_Witness ==
    /\ response.op = "my_tokens"
    /\ response.result.status = 200
    /\ \E i, j \in DOMAIN response.result.tokens :
          /\ response.result.tokens[i].created_at < response.result.tokens[j].created_at
          /\ response.result.tokens[i].expires_at
                = response.result.tokens[i].created_at + expires_delta

\* the step is part of an operation scoped to the user: a clean-up of the
\* user's bucket or the registration of the user's new token
OperationOf(username) ==
    \/ SweepOf(username)
    \/ \E r \in Requests :
          /\ req[r].pc = "mint"
          /\ req[r].username = username
          /\ req'[r] # req[r]

(***************************************************************************)
(* C15: a step that is not part of an operation scoped to user B leaves    *)
(* B's bucket as it is: nothing is added to it, nothing is swept from it   *)
(* (so B's count and next slot are as before); an expired record of B      *)
(* therefore stays until an operation of B runs.                           *)
(***************************************************************************)
C15_OtherBucketsUnchanged ==
    [][\/ _active_tokens' = _active_tokens
       \/ \A u \in DOMAIN API_USERS \cup DOMAIN _active_tokens
                    \cup DOMAIN _active_tokens' :
            ~OperationOf(u) =>
               /\ (u \in DOMAIN _active_tokens') = (u \in DOMAIN _active_tokens)
               /\ Bucket(_active_tokens', u) = Bucket(_active_tokens, u)]_vars

\* a token has just been registered for one user, whose bucket holds no
\* expired record, while a record of another user that expired at an
\* earlier tick is still in the registry
C15_Witness ==
    /\ response.op = "login"
    /\ response.result.status = 200
    /\ LiveKeys(response.username) = DOMAIN BucketOf(response.username)
    /\ \E g \in issued :
          /\ g.username # response.username
          /\ g.expire < now
          /\ _hash_token(g.access_token) \in DOMAIN BucketOf(g.username)

\* the users whose bucket has the fingerprint of the token as a key
HoldersOf(token) ==
    {u \in DOMAIN _active_tokens : _hash_token(token) \in DOMAIN _active_tokens[u]}

(***************************************************************************)
(* C16: get_token_api_name leaves the whole registry unchanged (it runs no *)
(* clean-up); it returns the slot name of the record kept under the        *)
(* token's fingerprint in any user's bucket, expired or not, and None      *)
(* exactly when no bucket has that fingerprint.                            *)
(***************************************************************************)
C16_LookupReadsOnly ==
    /\ [][response'.op = "get_token_api_name" => _active_tokens' = _active_tokens]_vars
    /\ [](response.op = "get_token_api_name" =>
            /\ (HoldersOf(response.token) = {}) = (response.result = None)
            /\ \A u \in HoldersOf(response.token) :
                  response.result
                     = _active_tokens[u][_hash_token(response.token)].api_name)

\* the lookup has just returned the slot name of a record that has expired
\* and has not been swept
C16_Witness ==
    /\ response.op = "get_token_api_name"
    /\ \E u \in HoldersOf(response.token) :
          /\ _active_tokens[u][_hash_token(response.token)].expiry < now
          /\ response.result = _active_tokens[u][_hash_token(response.token)].api_name
          /\ response.result = ApiName(1)

\* a <= b in the order of str: a is a prefix of b, or at the first position
\* where they differ a has the character with the lower code point
LexLeq(a, b) ==
    \/ /\ Len(a) <= Len(b)
       /\ SubSeq(b, 1, Len(a)) = a
    \/ \E k \in 1..Len(a) :
          /\ k <= Len(b)
          /\ SubSeq(a, 1, k - 1) = SubSeq(b, 1, k - 1)
          /\ CharCode[a[k]] < CharCode[b[k]]

(***************************************************************************)
(* C17: the list of a user's tokens has one entry for each record left by  *)
(* the clean-up, ordered by slot name in the character-by-character order  *)
(* of strings: each entry's api_name is <= the next one's in that order,   *)
(* which puts API_10 before API_2.                                         *)
(***************************************************************************)
C17_ListInLexicalOrder ==
    (response.op = "my_tokens" /\ response.result.status = 200) =>
        LET tokens == response.result.tokens
        IN  /\ Len(tokens) = Cardinality(DOMAIN BucketOf(response.result.username))
            /\ \A i \in 1..(Len(tokens) - 1) :
                  LexLeq(tokens[i].api_name, tokens[i + 1].api_name)
            /\ \A i, j \in 1..Len(tokens) :
                  (/\ tokens[i].api_name = ApiName(10)
                   /\ tokens[j].api_name = ApiName(2)) => i < j

\* a list with API_10 right after API_1 and API_2 after them
C17_Witness ==
    /\ response.op = "my_tokens"
    /\ response.result.status = 200
    /\ Len(response.result.tokens) >= 10
    /\ response.result.tokens[1].api_name = ApiName(1)
    /\ response.result.tokens[2].api_name = ApiName(10)
    /\ \E j \in 3..Len(response.result.tokens) :
          response.result.tokens[j].api_name = ApiName(2)

\* the store has the user enabled: a bare password entry and a record with
\* no enabled key count as enabled
EnabledInStore(username) ==
    \/ "enabled" \notin DOMAIN API_USERS[username]
    \/ API_USERS[username].enabled

\* the token is a JWT signed with the key of the service whose exp has not
\* passed
Decodes(token) ==
    /\ "key" \in DOMAIN token
    /\ token.key = JWT_SECRET_KEY
    /\ token.exp >= Seconds(now)

\* the token names a subject that is in the credential store
KnownSubject(token) == "sub" \in DOMAIN token /\ token.sub \in DOMAIN API_USERS

(***************************************************************************)
(* C18: get_current_user answers 401 "Invalid or expired token" for a      *)
(* text that is no JWT, a signature of another key, an exp that has        *)
(* passed, a missing sub claim and a subject that is not in the store;     *)
(* 401 "User account is disabled" exactly when the token decodes and its   *)
(* subject is in the store with enabled = false; and the subject's         *)
(* username in every other case.                                           *)
(***************************************************************************)
C18_ValidateOutcomes ==
    response.op = "validate" =>
        LET token == response.token
            invalid == [status |-> 401, detail |-> "Invalid or expired token"]
            disabled == [status |-> 401, detail |-> "User account is disabled"]
        IN  /\ (~Decodes(token) \/ ~KnownSubject(token)) => response.result = invalid
            /\ (Decodes(token) /\ KnownSubject(token) /\ ~EnabledInStore(token.sub))
                  => response.result = disabled
            /\ (Decodes(token) /\ KnownSubject(token) /\ EnabledInStore(token.sub))
                  => response.result = [status |-> 200, username |-> token.sub]
            /\ response.result = disabled =>
                  (Decodes(token) /\ KnownSubject(token) /\ ~EnabledInStore(token.sub))

\* a signed token of a disabled user whose exp has passed is answered with
\* the invalid-token outcome, not with the disabled one
C18_Witness ==
    /\ response.op = "validate"
    /\ "key" \in DOMAIN response.token
    /\ response.token.key = JWT_SECRET_KEY
    /\ response.token.exp < Seconds(now)
    /\ KnownSubject(response.token)
    /\ ~EnabledInStore(response.token.sub)
    /\ response.result = [status |-> 401, detail |-> "Invalid or expired token"]

\* the component "<n><unit>" if n is not zero, as a list of no or one word
Component(n, unit) == IF n > 0 THEN << str(n) \o <<unit>> >> ELSE << >>

\* one, two or three words with a space between them
SpaceJoined(words) ==
    CASE Len(words) = 1 -> words[1]
      [] Len(words) = 2 -> words[1] \o <<" ">> \o words[2]
      [] Len(words) = 3 -> words[1] \o <<" ">> \o words[2] \o <<" ">> \o words[3]

(***************************************************************************)
(* C19: _format_duration(S) is "expired" for S <= 0; otherwise, with       *)
(* d = S div 86400, h = (S mod 86400) div 3600, m = (S mod 3600) div 60,   *)
(* it is the non-zero ones among "<d>d", "<h>h", "<m>m", in that order     *)
(* with a space between, or "<1m" when all three are zero.  0 gives        *)
(* "expired", 45 "<1m", 3661 "1h 1m", 86400 "1d"; no text has a seconds    *)
(* component.                                                              *)
(***************************************************************************)
C19_FormatDuration ==
    response.op = "_format_duration" =>
        LET S == response.seconds
            words == Component(S \div 86400, "d")
                     \o Component((S % 86400) \div 3600, "h")
                     \o Component((S % 3600) \div 60, "m")
        IN  /\ S <= 0 => response.result = <<"e", "x", "p", "i", "r", "e", "d">>
            /\ (S > 0 /\ words = << >>) => response.result = <<"<", "1", "m">>
            /\ (S > 0 /\ words # << >>) => response.result = SpaceJoined(words)
            /\ S = 0 => response.result = <<"e", "x", "p", "i", "r", "e", "d">>
            /\ S = 45 => response.result = <<"<", "1", "m">>
            /\ S = 3661 => response.result = <<"1", "h", " ", "1", "m">>
            /\ S = 86400 => response.result = <<"1", "d">>
            /\ \A k \in 1..Len(response.result) : response.result[k] # "s"

\* two days, no hour, fifty-nine minutes and fifty-nine seconds: "2d 59m"
C19_Witness ==
    /\ response.op = "_format_duration"
    /\ response.seconds = 2 * 86400 + 59 * 60 + 59
    /\ response.result = <<"2", "d", " ", "5", "9", "m">>

(***************************************************************************)
(* C20, as stated: the duration text for 90000 seconds is "1d 1h 0m".      *)
(***************************************************************************)
C20_NinetyThousandWithZeroMinutes ==
    (response.op = "_format_duration" /\ response.seconds = 90000) =>
        response.result = <<"1", "d", " ", "1", "h", " ", "0", "m">>

(***************************************************************************)
(* C20, amended: the duration text for 90000 seconds is "1d 1h"; the zero  *)
(* minutes are left out.                                                   *)
(***************************************************************************)
C20_NinetyThousand ==
    (response.op = "_format_duration" /\ response.seconds = 90000) =>
        response.result = <<"1", "d", " ", "1", "h">>

\* _format_duration(90000) has returned "1d 1h"
C20_Witness ==
    /\ response.op = "_format_duration"
    /\ response.seconds = 90000
    /\ Len(response.result) = 5
    /\ response.result[5] = "h"

\* the registry as a clean-up of the user's bucket would leave it now
Surviving(username) == _cleanup_expired_tokens(_active_tokens, username, now)

\* every number of 1..99 is the slot number of a surviving record of the
\* user, who then has at least 99 records
AllSlotsInUse(username) ==
    /\ Cardinality(DOMAIN BucketOf(username)) >= 99
    /\ LET used == used_numbers(Bucket(Surviving(username), username))
       IN  \A i \in 1..99 : i \in used

AcceptedOf(username) ==
    {g \in issued : /\ g.username = username
                    /\ jwt_decode(g.access_token, now) # JWTError}

(***************************************************************************)
(* C22: for a user with token_limit L > 0, at no instant do more than L    *)
(* distinct tokens issued to the user pass the expiry check of             *)
(* get_current_user / get_token_info (jwt.decode on the exp claim): the    *)
(* clean-up frees no slot while the token of the record it drops would     *)
(* still be accepted.                                                      *)
(***************************************************************************)
C22_AcceptedWithinLimit ==
    \A u \in LimitedUsers :
        Cardinality(AcceptedOf(u)) <= API_USERS[u].token_limit

\* the keys the step adds to the user's bucket
AddedKeys(username) ==
    DOMAIN Bucket(_active_tokens', username) \ DOMAIN BucketOf(username)

(***************************************************************************)
(* C23: for a user with token_limit L > 0 the number of records in the     *)
(* user's bucket, the expired ones that no clean-up has removed yet        *)
(* included, is at most L in every state; a step adds a record only to a   *)
(* bucket that the clean-ups of the issuance left with fewer than L        *)
(* records, and it adds one record.                                        *)
(***************************************************************************)
C23_BucketWithinLimit ==
    /\ [](\A u \in LimitedUsers :
            Cardinality(DOMAIN BucketOf(u)) <= API_USERS[u].token_limit)
    /\ [][\A u \in LimitedUsers :
            AddedKeys(u) # {} =>
                /\ Cardinality(AddedKeys(u)) = 1
                /\ Cardinality(DOMAIN BucketOf(u)) < API_USERS[u].token_limit
                /\ \E r \in Requests :
                      /\ req[r].pc = "mint"
                      /\ req[r].username = u
                      /\ Cardinality(DOMAIN BucketOf(u)) <= req[r].active_count
          ]_vars

\* the bucket holds L records none of which is live any more, no clean-up
\* having run since they expired
C23_Witness ==
    \E u \in LimitedUsers :
        /\ Cardinality(DOMAIN BucketOf(u)) = API_USERS[u].token_limit
        /\ API_USERS[u].token_limit > 1
        /\ LiveKeys(u) = {}

\* the response of the step is that of a login with this status
LoginAnswered(status) == response'.op = "login" /\ response'.result.status = status

\* the step leaves the user's bucket as it was but for expired records, which
\* it may have removed
OnlyExpiredRemoved(username) ==
    LET before == BucketOf(username)
        after == Bucket(_active_tokens', username)
    IN  /\ DOMAIN after \subseteq DOMAIN before
        /\ \A h \in DOMAIN after : after[h] = before[h]
        /\ \A h \in DOMAIN before \ DOMAIN after : before[h].expiry <= now

(***************************************************************************)
(* C24: a failed issuance adds no record and removes no live one.  A login *)
(* answered 401 leaves the registry as it was, expired records included; a *)
(* login answered 429 changes nothing but the user's bucket, from which it *)
(* removes only records whose expiry has passed; a step adds a record only *)
(* when it is a login answered 200, and only to that user's bucket.        *)
(***************************************************************************)
C24_FailedIssuanceAddsNothing ==
    [][/\ LoginAnswered(401) => _active_tokens' = _active_tokens
       /\ LoginAnswered(429) =>
            /\ OnlyExpiredRemoved(response'.username)
            /\ \A u \in DOMAIN _active_tokens \ {response'.username} :
                  Bucket(_active_tokens', u) = BucketOf(u)
            /\ DOMAIN _active_tokens' = DOMAIN _active_tokens
       /\ \A u \in DOMAIN _active_tokens' :
            AddedKeys(u) # {} => LoginAnswered(200) /\ response'.username = u
      ]_vars

\* a login with a wrong password has just been answered 401 while the
\* user's bucket holds an expired record: no clean-up ran
C24_Witness ==
    /\ response.op = "login"
    /\ response.result.status = 401
    /\ response.username \in DOMAIN _active_tokens
    /\ \E h \in DOMAIN BucketOf(response.username) :
          BucketOf(response.username)[h].expiry <= now

\* what the clients hold of the tokens issued to the user that expire later
\* than now
UnexpiredIssued(username) ==
    {g \in issued : g.username = username /\ g.expire > now}

\* the entry of a list that shows an issued token
Shows(entry, g) ==
    /\ entry.token = g.access_token
    /\ entry.api_name = g.api_name
    /\ entry.expires_at = g.expire

(***************************************************************************)
(* C25: the list GET /auth/my-tokens returns for a user has exactly one    *)
(* entry for each token issued to the user whose expiry is later than now, *)
(* with the raw token and the slot name the issuance returned, and no      *)
(* other entry: none of an expired token, none of another user's token.    *)
(***************************************************************************)
C25_ListIsUnexpiredIssued ==
    (response.op = "my_tokens" /\ response.result.status = 200) =>
        LET entries == response.result.tokens
            want == UnexpiredIssued(response.result.username)
        IN  /\ Len(entries) = Cardinality(want)
            /\ \A g \in want :
                  Cardinality({i \in 1..Len(entries) : Shows(entries[i], g)}) = 1
            /\ \A i \in 1..Len(entries) : \E g \in want : Shows(entries[i], g)

\* a list of two unexpired tokens of a user, asked for while a third token
\* of the user has expired and another user has a record in the registry
C25_Witness ==
    /\ response.op = "my_tokens"
    /\ response.result.status = 200
    /\ Len(response.result.tokens) = 2
    /\ \E g \in issued : g.username = response.result.username /\ g.expire <= now
    /\ \E u \in DOMAIN _active_tokens \ {response.result.username} :
          DOMAIN BucketOf(u) # {}

\* the token has a record in the bucket of its subject
Registered(token) ==
    /\ token.sub \in DOMAIN _active_tokens
    /\ _hash_token(token) \in DOMAIN _active_tokens[token.sub]

(***************************************************************************)
(* C26: in every record of the registry the slot name is the api_name      *)
(* claim of the record's raw token, the sub claim of that token is the     *)
(* user of the bucket, and the key of the record is the digest of the raw  *)
(* token; so for a registered token the slot name get_token_info takes     *)
(* from the claims and the one get_token_api_name takes from the registry  *)
(* are the same.                                                           *)
(***************************************************************************)
C26_RecordMatchesToken ==
    /\ \A u \in DOMAIN _active_tokens : \A h \in DOMAIN _active_tokens[u] :
          LET record == _active_tokens[u][h]
              info == get_token_info(_active_tokens, record.token, now)
          IN  /\ record.api_name = record.token.api_name
              /\ record.token.sub = u
              /\ h = _hash_token(record.token)
              /\ get_token_api_name(_active_tokens, record.token) = record.api_name
              /\ info.valid => info.api_name = record.api_name
    /\ (/\ response.op = "token_info"
        /\ "valid" \in DOMAIN response.result
        /\ response.result.valid
        /\ Registered(response.token)) =>
            response.result.api_name
                = get_token_api_name(_active_tokens, response.token)
    /\ (response.op = "get_token_api_name" /\ response.result # None) =>
            response.result = response.token.api_name

\* GET /auth/token-info has just answered for a token that is registered
\* as API_2
C26_Witness ==
    /\ response.op = "token_info"
    /\ "valid" \in DOMAIN response.result
    /\ response.result.valid
    /\ Registered(response.token)
    /\ response.result.api_name = ApiName(2)
    /\ _active_tokens[response.token.sub][_hash_token(response.token)].api_name
         = ApiName(2)

(***************************************************************************)
(* C27: every entry of the list GET /auth/my-tokens returns has            *)
(* expires_in_seconds >= 1 and an expires_in_human other than "expired":   *)
(* no token listed as active is shown as expired, whether or not the clock *)
(* moves on between the clean-up and the computation of the remaining      *)
(* time.                                                                   *)
(***************************************************************************)
C27_ListedNotExpired ==
    (response.op = "my_tokens" /\ response.result.status = 200) =>
        \A i \in 1..Len(response.result.tokens) :
            /\ response.result.tokens[i].expires_in_seconds >= 1
            /\ response.result.tokens[i].expires_in_human
                 # <<"e", "x", "p", "i", "r", "e", "d">>

====
